---------------------------- MODULE Spec2Model ----------------------------
(* Model of src/analise_sindrome_gripal.py (run_analysis).                  *)
(*                                                                          *)
(* Four specifications share the module:                                    *)
(*   Spec       the whole run of run_analysis, one action per stage         *)
(*   SpecNorm   the column-name normalisation of preparar_ano               *)
(*   SpecCount  the derived column num_sintomas                             *)
(*   SpecZ      the two-proportion z-test arithmetic                        *)
(* Text is a sequence of one-character strings.  Characters outside ASCII   *)
(* carry ASCII names: "a_acute" is U+00E1, "A_acute" U+00C1, "sect" U+00A7, *)
(* "diaer" U+00A8, "nbsp" U+00A0, "boldA" U+1D400, "comb" a combining mark, *)
(* "sp" is the ASCII space.                                                 *)
EXTENDS Integers, Sequences, FiniteSets, TLC

VARIABLES
    \* --- SpecNorm: a column label, and preparar_ano applied once and twice
    nname, nonce, ntwice, npc,
    \* --- SpecCount: a column of symptom cells and the derived num_sintomas
    ccol, cnum, cpc,
    \* --- SpecZ: the counts handed to the proportion test and its results
    zin, zres, zswap, zpc,
    \* --- Spec: one run of run_analysis
    pc,          \* the stage the run has reached
    error,       \* the exception that ended the run, "none" otherwise
    outLoc,      \* what the file system holds at OUTPUT_DIR: "absent" or "dir"
    dirCreated,  \* the run created the directory OUTPUT_DIR
    file23,      \* the 2023 input file
    file24,      \* the 2024 input file
    printed,     \* the kinds of lines printed so far
    images,      \* the image files written so far
    df_2023, df_2024, df_final,
    desc,        \* the descriptive tables of stage 3
    hyp,         \* df_23, df_24 and the t-test samples of stage 5
    zt,          \* the proportion test of stage 5.2
    prob         \* the probabilities of stage 6

normVars == <<nname, nonce, ntwice, npc>>
countVars == <<ccol, cnum, cpc>>
zVars == <<zin, zres, zswap, zpc>>
runVars == <<pc, error, outLoc, dirCreated, file23, file24, printed, images,
             df_2023, df_2024, df_final, desc, hyp, zt, prob>>
vars == <<normVars, countVars, zVars, runVars>>

\* a cell is missing (None / NaN / pd.NA) or holds one value
NULL == <<>>
Some(v) == <<v>>
Val(cell) == cell[1]

\* the value of a variable that the running stage has not set yet
NotYet == "-"

(***************************************************************************)
(* Bounds                                                                  *)
(***************************************************************************)
MaxName == 3
MaxText == 3
MaxCells == 1
MaxN == 3
MaxRows == 2

\* the variables of a specification that is not the one running
NormIdle == nname = NotYet /\ nonce = NotYet /\ ntwice = NotYet /\ npc = "idle"
CountIdle == ccol = NotYet /\ cnum = NotYet /\ cpc = "idle"
ZIdle == zin = NotYet /\ zres = NotYet /\ zswap = NotYet /\ zpc = "idle"
RunIdle ==
    /\ pc = "idle" /\ error = NotYet /\ outLoc = NotYet /\ dirCreated = NotYet
    /\ file23 = NotYet /\ file24 = NotYet /\ printed = NotYet /\ images = NotYet
    /\ df_2023 = NotYet /\ df_2024 = NotYet /\ df_final = NotYet
    /\ desc = NotYet /\ hyp = NotYet /\ zt = NotYet /\ prob = NotYet

RECURSIVE SeqsUpTo(_, _)
SeqsUpTo(S, n) ==
    IF n = 0 THEN {<<>>}
    ELSE LET shorter == SeqsUpTo(S, n - 1)
         IN  shorter \cup {Append(s, c) : s \in {t \in shorter : Len(t) = n - 1}, c \in S}

(***************************************************************************)
(* preparar_ano: normalisation of one column label                         *)
(***************************************************************************)
NameChars == {"a", "A", "sp", "a_acute", "A_acute", "sect", "diaer", "nbsp", "boldA"}

\* str.isspace(): the characters str.strip() removes
IsSpace(c) == c \in {"sp", "nbsp"}

\* the characters of the model above code point 127
NonAscii == {"a_acute", "A_acute", "sect", "diaer", "nbsp", "boldA", "comb"}

\* code points below 128
IsAscii(c) == c \notin NonAscii

RECURSIVE LStrip(_)
LStrip(s) == IF s /= <<>> /\ IsSpace(Head(s)) THEN LStrip(Tail(s)) ELSE s

RECURSIVE RStrip(_)
RStrip(s) ==
    IF s /= <<>> /\ IsSpace(s[Len(s)]) THEN RStrip(SubSeq(s, 1, Len(s) - 1)) ELSE s

\* .str.strip()
Strip(s) == RStrip(LStrip(s))

\* str.lower() of one character; "boldA" has no lowercase mapping
LowerMap ==
    [A |-> "a", C |-> "c", E |-> "e", F |-> "f", I |-> "i", O |-> "o", S |-> "s",
     T |-> "t", X |-> "x", A_acute |-> "a_acute"]

LowerChar(c) == IF c \in DOMAIN LowerMap THEN LowerMap[c] ELSE c

\* .str.lower()
Lower(s) == [i \in 1..Len(s) |-> LowerChar(s[i])]

\* unicodedata.normalize("NFKD", c) of one character
NFKDChar(c) ==
    CASE c = "a_acute" -> <<"a", "comb">>
      [] c = "A_acute" -> <<"A", "comb">>
      [] c = "diaer" -> <<"sp", "comb">>
      [] c = "nbsp" -> <<"sp">>
      [] c = "boldA" -> <<"A">>
      [] OTHER -> <<c>>

RECURSIVE NFKD(_)
\* .str.normalize("NFKD")
NFKD(s) == IF s = <<>> THEN <<>> ELSE NFKDChar(Head(s)) \o NFKD(Tail(s))

\* .str.encode("ascii", "ignore"): the characters that have no ASCII byte are dropped
EncodeAsciiIgnore(s) == SelectSeq(s, IsAscii)

\* .str.decode("ascii"): every byte below 128 is the code point of the same number
DecodeAscii(b) == b

\* the chain of lines 42-49 applied to one label
NormalizeLabel(s) == DecodeAscii(EncodeAsciiIgnore(NFKD(Lower(Strip(s)))))

NormInit ==
    /\ nname \in SeqsUpTo(NameChars, MaxName)
    /\ nonce = NotYet
    /\ ntwice = NotYet
    /\ npc = "raw"
    /\ CountIdle /\ ZIdle /\ RunIdle

\* preparar_ano on a frame whose label is nname
NormalizeOnce ==
    /\ npc = "raw"
    /\ nonce' = NormalizeLabel(nname)
    /\ npc' = "once"
    /\ UNCHANGED <<nname, ntwice, countVars, zVars, runVars>>

\* preparar_ano on the frame preparar_ano returned
NormalizeTwice ==
    /\ npc = "once"
    /\ ntwice' = NormalizeLabel(nonce)
    /\ npc' = "twice"
    /\ UNCHANGED <<nname, nonce, countVars, zVars, runVars>>

NormNext == NormalizeOnce \/ NormalizeTwice

SpecNorm == NormInit /\ [][NormNext]_vars

(***************************************************************************)
(* num_sintomas (lines 79-86)                                              *)
(***************************************************************************)
CountChars == {"t", "sp", "nbsp", ","}

\* the column of the scenario: "febre,tosse", "tosse", "", None
ScenarioCol ==
    << Some(<<"f", "e", "b", "r", "e", ",", "t", "o", "s", "s", "e">>),
       Some(<<"t", "o", "s", "s", "e">>),
       Some(<<>>),
       NULL >>

\* .fillna(""): a missing cell becomes the empty text
FillNa(cell) == IF cell = NULL THEN <<>> ELSE Val(cell)

\* str(x) of a text cell
Str(x) == x

RECURSIVE SplitComma(_)
\* str.split(","): k commas give k+1 tokens, "" gives [""]
SplitComma(s) ==
    IF \A i \in 1..Len(s) : s[i] /= ","
    THEN <<s>>
    ELSE LET i == CHOOSE k \in 1..Len(s) :
                      s[k] = "," /\ \A j \in 1..(k - 1) : s[j] /= ","
         IN  <<SubSeq(s, 1, i - 1)>> \o SplitComma(SubSeq(s, i + 1, Len(s)))

\* the filter of the comprehension on line 83: s.strip() != ""
NonBlank(tok) == Strip(tok) /= <<>>

\* counts every token, blank or not
CountTokensAll(x) == Len(SplitComma(Str(x)))

\* the lambda of line 83: len([s for s in str(x).split(",") if s.strip() != ""])
CountTokens(x) == Len(SelectSeq(SplitComma(Str(x)), NonBlank))

\* lines 80-84: the column num_sintomas of a column of symptom cells
NumSintomas(col) == [i \in 1..Len(col) |-> CountTokens(FillNa(col[i]))]

CountCells == {Some(t) : t \in SeqsUpTo(CountChars, MaxText)} \cup {NULL}

CountInit ==
    /\ ccol \in (SeqsUpTo(CountCells, MaxCells) \ {<<>>}) \cup {ScenarioCol}
    /\ cnum = NotYet
    /\ cpc = "raw"
    /\ NormIdle /\ ZIdle /\ RunIdle

\* lines 79-84 with the symptom column present
DeriveNumSintomas ==
    /\ cpc = "raw"
    /\ cnum' = NumSintomas(ccol)
    /\ cpc' = "derived"
    /\ UNCHANGED <<ccol, normVars, zVars, runVars>>

CountNext == DeriveNumSintomas

SpecCount == CountInit /\ [][CountNext]_vars

\* a character that is neither a comma nor whitespace
IsInk(c) == c /= "," /\ ~IsSpace(c)

\* the positions of t that start a non-blank token: an ink character with no ink
\* character before it in its comma-free segment
TokenStarts(t) ==
    {i \in 1..Len(t) :
        /\ IsInk(t[i])
        /\ \A j \in 1..(i - 1) :
              (\A k \in j..(i - 1) : t[k] /= ",") => ~IsInk(t[j])}

\* C2: every row's num_sintomas is an integer >= 0 equal to the number of
\* comma-separated tokens of the row's symptom text that are non-empty after
\* trimming; a missing and an empty text give 0; the scenario column gives 2,1,0,0.
C2_SymptomCount ==
    cpc = "derived" =>
        /\ Len(cnum) = Len(ccol)
        /\ \A i \in 1..Len(ccol) :
              /\ cnum[i] \in Nat
              /\ ccol[i] = NULL => cnum[i] = 0
              /\ ccol[i] = Some(<<>>) => cnum[i] = 0
              /\ ccol[i] /= NULL => cnum[i] = Cardinality(TokenStarts(Val(ccol[i])))
        /\ ccol = ScenarioCol => cnum = <<2, 1, 0, 0>>

C2_Witness ==
    /\ cpc = "derived"
    /\ ccol = ScenarioCol
    /\ cnum = <<2, 1, 0, 0>>

(***************************************************************************)
(* Exact arithmetic for the proportion test.  A float is NAN, or an exact  *)
(* fraction [n, d] in lowest terms with d > 0.                             *)
(***************************************************************************)
NAN == [nan |-> TRUE]

Abs(i) == IF i < 0 THEN -i ELSE i

RECURSIVE GCD(_, _)
GCD(a, b) == IF b = 0 THEN a ELSE GCD(b, a % b)

Rat(n, d) ==
    LET g == GCD(Abs(n), Abs(d))
        sgn == IF d < 0 THEN -1 ELSE 1
    IN  [n |-> sgn * (n \div g), d |-> sgn * (d \div g)]

RAdd(a, b) == Rat(a.n * b.d + b.n * a.d, a.d * b.d)
RSub(a, b) == Rat(a.n * b.d - b.n * a.d, a.d * b.d)
RMul(a, b) == Rat(a.n * b.n, a.d * b.d)
RDiv(a, b) == Rat(a.n * b.d, a.d * b.n)
RLt(a, b) == a.n * b.d < b.n * a.d
RSign(a) == IF a.n > 0 THEN 1 ELSE IF a.n < 0 THEN -1 ELSE 0
ROne == Rat(1, 1)
RZero == Rat(0, 1)

\* x / n where x is a numpy integer: 0 / 0 is nan (with a RuntimeWarning), no exception
NumpyDiv(x, n) == IF n = 0 THEN NAN ELSE Rat(x, n)

(***************************************************************************)
(* Two-proportion z-test (lines 186-207)                                   *)
(***************************************************************************)
\* the 0.975 quantile of the standard normal, squared (1.959964^2):
\* 2 * (1 - norm.cdf(|z|)) < 0.05 exactly when z^2 exceeds it
ZCrit2 == Rat(3841459, 1000000)

\* the first group's proportion in place of the pooled one
PPoolFirst(x1, n1, x2, n2) == NumpyDiv(x1, n1)

\* line 197: p_pool = (x1 + x2) / (n1 + n2)
PPool(x1, n1, x2, n2) == NumpyDiv(x1 + x2, n1 + n2)

\* the variance without the factor (1 - p_pool)
SE2NoComplement(pp, n1, n2) == RMul(pp, RAdd(Rat(1, n1), Rat(1, n2)))

\* line 198 under the square root: p_pool * (1 - p_pool) * (1/n1 + 1/n2); se is its root
SE2(pp, n1, n2) == RMul(RMul(pp, RSub(ROne, pp)), RAdd(Rat(1, n1), Rat(1, n2)))

\* line 199: z = (p1 - p2) / se, kept as its sign and its square; p1 - p2 is a numpy
\* float, so a zero se gives nan (0/0) and no exception
ZStat(p1, p2, se2) ==
    IF se2 = RZero
    THEN IF p1 = p2 THEN NAN ELSE [inf |-> RSign(RSub(p1, p2))]
    ELSE [sign |-> RSign(RSub(p1, p2)),
          sq |-> RDiv(RMul(RSub(p1, p2), RSub(p1, p2)), se2)]

\* line 200: p_z = 2 * (1 - norm.cdf(abs(z))), a decreasing function of |z|: kept as
\* the square of the |z| it is the p-value of; nan for a nan z, 0 for an infinite z
PValue(z) ==
    IF z = NAN THEN NAN
    ELSE IF "inf" \in DOMAIN z THEN [zero |-> TRUE]
    ELSE [absz2 |-> z.sq]

\* line 204: p_z < 0.05; every comparison with nan is False
PBelowAlpha(p) ==
    IF p = NAN THEN FALSE
    ELSE IF "zero" \in DOMAIN p THEN TRUE
    ELSE RLt(ZCrit2, p.absz2)

\* 1/n1 + 1/n2 on Python ints (line 198) raises for a zero n
ZTestRaises(n1, n2) == n1 = 0 \/ n2 = 0

\* lines 191-204 for n1, n2 >= 1
ZTestValues(x1, n1, x2, n2) ==
    LET p1 == NumpyDiv(x1, n1)
        p2 == NumpyDiv(x2, n2)
        pp == PPool(x1, n1, x2, n2)
        se2 == SE2(pp, n1, n2)
        z == ZStat(p1, p2, se2)
        pz == PValue(z)
    IN  [err |-> "none", p1 |-> p1, p2 |-> p2, p_pool |-> pp, se2 |-> se2,
         z |-> z, p_z |-> pz, reject |-> PBelowAlpha(pz)]

\* a test that answers nan for an empty group instead of raising
TwoProportionZTestGuarded(x1, n1, x2, n2) ==
    IF ZTestRaises(n1, n2)
    THEN [err |-> "none", p1 |-> NAN, p2 |-> NAN, p_pool |-> NAN, se2 |-> NAN,
          z |-> NAN, p_z |-> NAN, reject |-> FALSE]
    ELSE ZTestValues(x1, n1, x2, n2)

\* lines 191-207 on the counts x1, n1, x2, n2
TwoProportionZTest(x1, n1, x2, n2) ==
    IF ZTestRaises(n1, n2)
    THEN [err |-> "ZeroDivisionError"]
    ELSE ZTestValues(x1, n1, x2, n2)

\* the counts of the scenario: x1 = 50, n1 = 100, x2 = 70, n2 = 100
ScenarioCounts == [x1 |-> 50, n1 |-> 100, x2 |-> 70, n2 |-> 100]

ZInputs ==
    {[x1 |-> a, n1 |-> n, x2 |-> b, n2 |-> m] :
        a \in 0..MaxN, n \in 0..MaxN, b \in 0..MaxN, m \in 0..MaxN}

ZInit ==
    /\ zin \in {i \in ZInputs : i.x1 <= i.n1 /\ i.x2 <= i.n2} \cup {ScenarioCounts}
    /\ zres = NotYet
    /\ zswap = NotYet
    /\ zpc = "in"
    /\ NormIdle /\ CountIdle /\ RunIdle

\* the test as the run calls it: group 1 is 2023, group 2 is 2024
ZTest ==
    /\ zpc = "in"
    /\ zres' = TwoProportionZTest(zin.x1, zin.n1, zin.x2, zin.n2)
    /\ zpc' = "tested"
    /\ UNCHANGED <<zin, zswap, normVars, countVars, runVars>>

\* the same code with the two groups exchanged
ZTestSwapped ==
    /\ zpc = "tested"
    /\ zswap' = TwoProportionZTest(zin.x2, zin.n2, zin.x1, zin.n1)
    /\ zpc' = "swapped"
    /\ UNCHANGED <<zin, zres, normVars, countVars, runVars>>

ZNext == ZTest \/ ZTestSwapped

SpecZ == ZInit /\ [][ZNext]_vars

\* the test returned a number for z
ZDefined(r) == r.err = "none" /\ r.z /= NAN /\ "sign" \in DOMAIN r.z

\* C6: for counts with n1, n2 >= 1 for which z is defined, exchanging the two groups
\* negates z and leaves the two-sided p-value and the decision unchanged.
C6_Symmetric ==
    (zpc = "swapped" /\ zin.n1 >= 1 /\ zin.n2 >= 1 /\ ZDefined(zres)) =>
        /\ ZDefined(zswap)
        /\ zswap.z.sign = -zres.z.sign
        /\ zswap.z.sq = zres.z.sq
        /\ zswap.p_z = zres.p_z
        /\ zswap.reject = zres.reject

C6_Witness ==
    /\ zpc = "swapped"
    /\ ZDefined(zres)
    /\ zin.n1 /= zin.n2
    /\ zres.z.sign = 1
    /\ zswap.z.sign = -1

\* C9: the test computes p1 = x1/n1, p2 = x2/n2, p_pool = (x1+x2)/(n1+n2),
\* se^2 = p_pool (1 - p_pool) (1/n1 + 1/n2), z = (p1 - p2)/se, and rejects exactly
\* when the two-sided p-value is below 0.05; 50/100 against 70/100 gives 0.5, 0.7,
\* 0.6, z^2 > 4 and a rejection.
C9_Formulas ==
    (zpc /= "in" /\ zres.err = "none") =>
        LET x1 == zin.x1
            n1 == zin.n1
            x2 == zin.x2
            n2 == zin.n2
            r == zres
        IN  /\ r.p1.n * n1 = x1 * r.p1.d
            /\ r.p2.n * n2 = x2 * r.p2.d
            /\ r.p_pool.n * (n1 + n2) = (x1 + x2) * r.p_pool.d
            /\ r.se2.n * ((n1 + n2) * n1 * n2)
                   = ((x1 + x2) * (n1 + n2 - x1 - x2)) * r.se2.d
            /\ ZDefined(r) =>
                  /\ RMul(r.z.sq, r.se2) = RMul(RSub(r.p1, r.p2), RSub(r.p1, r.p2))
                  /\ r.z.sign = (IF x1 * n2 > x2 * n1 THEN 1
                                 ELSE IF x1 * n2 < x2 * n1 THEN -1 ELSE 0)
            /\ r.reject <=> (ZDefined(r) /\ r.z.sq.n * 1000000 > 3841459 * r.z.sq.d)
            /\ zin = ScenarioCounts =>
                  /\ r.p1 = [n |-> 1, d |-> 2]
                  /\ r.p2 = [n |-> 7, d |-> 10]
                  /\ r.p_pool = [n |-> 3, d |-> 5]
                  /\ r.z.sq.n > 4 * r.z.sq.d
                  /\ r.reject

C9_Witness ==
    /\ zpc = "tested"
    /\ zin = ScenarioCounts
    /\ zres.err = "none"
    /\ zres.reject

(***************************************************************************)
(* run_analysis: the input files                                           *)
(***************************************************************************)
\* the labels the run looks for (lines 64-67) and the tag column of line 50
col_idade == <<"i", "d", "a", "d", "e">>
col_sexo == <<"s", "e", "x", "o">>
col_sintomas == <<"s", "i", "n", "t", "o", "m", "a", "s">>
col_ano == <<"a", "n", "o">>

\* SINTOMA_ALVO of line 180
SINTOMA_ALVO == <<"T", "o", "s", "s", "e">>

\* the labels as a file spells them in its header line
RawLabel ==
    [idade |-> <<"I", "d", "a", "d", "e">>,
     sexo |-> <<"S", "E", "X", "O">>,
     sintomas |-> <<"sp", "S", "i", "n", "t", "o", "m", "a", "s">>,
     ano |-> <<"A", "n", "o">>]

Keys == {"idade", "sexo", "sintomas", "ano"}

\* the cells a file can hold in each column
IdadeCells == {NULL, Some(<<"2", "0">>), Some(<<"3", "5">>), Some(<<"x">>)}
SintomasCells == {NULL, Some(<<"T", "O", "S", "S", "E">>), Some(<<"f", ",", "c">>)}
SexoCells == {Some(<<"F">>)}

\* the year a file that has a column "Ano" of its own writes in it
OwnAno(ano) == IF ano = 2023 THEN 2024 ELSE 2023

\* the rows a file of year ano with header keys H can hold
RowsOf(H, ano) ==
    {[idade |-> i, sexo |-> x, sintomas |-> t, ano |-> a] :
        i \in (IF "idade" \in H THEN IdadeCells ELSE {NULL}),
        x \in (IF "sexo" \in H THEN SexoCells ELSE {NULL}),
        t \in (IF "sintomas" \in H THEN SintomasCells ELSE {NULL}),
        a \in (IF "ano" \in H THEN {Some(OwnAno(ano))} ELSE {NULL})}

\* a file is absent, or holds a header line of at least one label and rows
NoFile == [exists |-> FALSE, cols |-> {}, rows |-> <<>>]
FilesOf(H, ano, n) ==
    {[exists |-> TRUE, cols |-> {RawLabel[k] : k \in H}, rows |-> r] :
        r \in [1..n -> RowsOf(H, ano)]}
        \cup (IF n = 0 THEN {NoFile} ELSE {})

(***************************************************************************)
(* run_analysis: stages 1 and 2                                            *)
(***************************************************************************)
\* tags a frame only when it has no column "ano" of its own
PrepararAnoKeep(df, ano) ==
    [cols |-> {NormalizeLabel(l) : l \in df.cols} \cup {col_ano},
     rows |-> [i \in 1..Len(df.rows) |->
                 IF df.rows[i].ano = NULL
                 THEN [df.rows[i] EXCEPT !.ano = Some(ano)]
                 ELSE df.rows[i]]]

\* lines 39-51: the labels normalised, the column "ano" set to the year in every row
PrepararAno(df, ano) ==
    [cols |-> {NormalizeLabel(l) : l \in df.cols} \cup {col_ano},
     rows |-> [i \in 1..Len(df.rows) |-> [df.rows[i] EXCEPT !.ano = Some(ano)]]]

\* line 57: pd.concat([a, b], ignore_index=True)
Concat(a, b) == [cols |-> a.cols \cup b.cols, rows |-> a.rows \o b.rows]

DigitVal ==
    [c \in {"0", "1", "2", "3", "4", "5", "6", "7", "8", "9"} |->
        CASE c = "0" -> 0 [] c = "1" -> 1 [] c = "2" -> 2 [] c = "3" -> 3
          [] c = "4" -> 4 [] c = "5" -> 5 [] c = "6" -> 6 [] c = "7" -> 7
          [] c = "8" -> 8 [] c = "9" -> 9]

RECURSIVE ParseDigits(_, _)
ParseDigits(t, acc) ==
    IF t = <<>> THEN acc ELSE ParseDigits(Tail(t), 10 * acc + DigitVal[Head(t)])

\* line 72: pd.to_numeric(..., errors="coerce") of one cell
ToNumeric(cell) ==
    IF cell = NULL THEN NULL
    ELSE LET t == Strip(Val(cell))
         IN  IF t /= <<>> /\ \A i \in 1..Len(t) : t[i] \in DOMAIN DigitVal
             THEN Some(ParseDigits(t, 0))
             ELSE NULL

\* lines 79-86: the cell of num_sintomas of one row
NumSintomasCell(cols, row) ==
    IF col_sintomas \in cols THEN Some(CountTokens(FillNa(row.sintomas))) ELSE NULL

\* lines 70-86 on the unified frame
PrepararColunasDe(df) ==
    [cols |-> df.cols \cup {<<"n", "u", "m", "_", "s", "i", "n", "t", "o", "m", "a", "s">>},
     rows |-> [i \in 1..Len(df.rows) |->
                 [idade |-> IF col_idade \in df.cols
                            THEN ToNumeric(df.rows[i].idade)
                            ELSE df.rows[i].idade,
                  sexo |-> df.rows[i].sexo,
                  sintomas |-> df.rows[i].sintomas,
                  ano |-> df.rows[i].ano,
                  num_sintomas |-> NumSintomasCell(df.cols, df.rows[i])]]]

RunInit ==
    /\ pc = "start"
    /\ error = "none"
    /\ outLoc \in {"absent", "dir"}
    /\ dirCreated = FALSE
    /\ \E H \in (SUBSET Keys) \ {{}}, n23 \in 0..MaxRows :
          \E n24 \in 0..(MaxRows - n23) :
             /\ file23 \in FilesOf(H, 2023, n23)
             /\ file24 \in FilesOf(H, 2024, n24)
    /\ printed = {}
    /\ images = {}
    /\ df_2023 = NotYet /\ df_2024 = NotYet /\ df_final = NotYet
    /\ desc = NotYet /\ hyp = NotYet /\ zt = NotYet /\ prob = NotYet
    /\ NormIdle /\ CountIdle /\ ZIdle

others == <<normVars, countVars, zVars>>

\* line 19: os.makedirs(OUTPUT_DIR, exist_ok=True), before any file is looked at
MakeDirs ==
    /\ pc = "start"
    /\ pc' = "mkdir"
    /\ outLoc' = "dir"
    /\ dirCreated' = (outLoc = "absent")
    /\ UNCHANGED <<error, file23, file24, printed, images, df_2023, df_2024, df_final,
                   desc, hyp, zt, prob, others>>

\* lines 21-36: both files are read; the first missing one ends the run with a message
LoadFiles ==
    /\ pc = "mkdir"
    /\ IF ~file23.exists
       THEN /\ pc' = "returned"
            /\ printed' = printed \cup {"carregando", "erro_arquivo_2023"}
            /\ UNCHANGED <<df_2023, df_2024>>
       ELSE IF ~file24.exists
       THEN /\ pc' = "returned"
            /\ printed' = printed \cup {"carregando", "erro_arquivo_2024"}
            /\ UNCHANGED <<df_2023, df_2024>>
       ELSE /\ pc' = "loaded"
            /\ printed' = printed \cup {"carregando", "carregados", "shapes"}
            /\ df_2023' = [cols |-> file23.cols, rows |-> file23.rows]
            /\ df_2024' = [cols |-> file24.cols, rows |-> file24.rows]
    /\ UNCHANGED <<error, outLoc, dirCreated, file23, file24, images, df_final,
                   desc, hyp, zt, prob, others>>

\* lines 53-61: preparar_ano on both frames, then the concatenation
Unificar ==
    /\ pc = "loaded"
    /\ df_2023' = PrepararAno(df_2023, 2023)
    /\ df_2024' = PrepararAno(df_2024, 2024)
    /\ df_final' = Concat(df_2023', df_2024')
    /\ printed' = printed \cup {"colunas"}
    /\ pc' = "unified"
    /\ UNCHANGED <<error, outLoc, dirCreated, file23, file24, images,
                   desc, hyp, zt, prob, others>>

\* lines 63-88: idade to numbers, the column num_sintomas; the date column converted
\* on lines 75-76 is read by no later stage and is not part of a row
PrepararColunas ==
    /\ pc = "unified"
    /\ df_final' = PrepararColunasDe(df_final)
    /\ printed' = printed \cup {"preparados"}
    /\ pc' = "prepared"
    /\ UNCHANGED <<error, outLoc, dirCreated, file23, file24, images, df_2023, df_2024,
                   desc, hyp, zt, prob, others>>

(***************************************************************************)
(* run_analysis: stages 3 to 6                                             *)
(***************************************************************************)
\* the values of a sequence of cells that are not missing (.dropna())
DropNa(cells) ==
    LET kept == SelectSeq(cells, LAMBDA c : c /= NULL)
    IN  [i \in 1..Len(kept) |-> Val(kept[i])]

Idades(rows) == DropNa([i \in 1..Len(rows) |-> rows[i].idade])
NumsSintomas(rows) == DropNa([i \in 1..Len(rows) |-> rows[i].num_sintomas])

\* the rows of one year (lines 159-160)
RowsOfYear(rows, ano) == SelectSeq(rows, LAMBDA r : r.ano = Some(ano))

RECURSIVE Sum(_)
Sum(v) == IF v = <<>> THEN 0 ELSE Head(v) + Sum(Tail(v))

RECURSIVE Sorted(_)
Sorted(v) ==
    IF v = <<>> THEN <<>>
    ELSE LET k == CHOOSE i \in 1..Len(v) : \A j \in 1..Len(v) : v[i] <= v[j]
         IN  <<v[k]>> \o Sorted(SubSeq(v, 1, k - 1) \o SubSeq(v, k + 1, Len(v)))

\* .mean(): nan for no value
Mean(v) == IF v = <<>> THEN NAN ELSE Rat(Sum(v), Len(v))

\* count, mean, min and max of .describe()
Describe(v) ==
    [count |-> Len(v),
     mean |-> Mean(v),
     min |-> IF v = <<>> THEN NAN ELSE Some(Sorted(v)[1]),
     max |-> IF v = <<>> THEN NAN ELSE Some(Sorted(v)[Len(v)])]

\* .quantile(qn/qd) of at least one value, linear interpolation between order statistics
Quantile(v, qn, qd) ==
    LET sv == Sorted(v)
        h == (Len(v) - 1) * qn
        lo == h \div qd
        r == h % qd
    IN  IF r = 0 THEN Rat(sv[lo + 1], 1)
        ELSE RAdd(Rat(sv[lo + 1], 1), RMul(Rat(r, qd), Rat(sv[lo + 2] - sv[lo + 1], 1)))

\* .str.contains(target, case=False, na=False) of one cell of a column of text: a
\* missing cell is no match, letters match whatever their case
Contains(cell, target) ==
    IF cell = NULL THEN FALSE
    ELSE LET t == Val(cell)
         IN  \E k \in 0..(Len(t) - Len(target)) :
                \A j \in 1..Len(target) : LowerChar(t[k + j]) = LowerChar(target[j])

\* .sum() of the boolean column of matches
CountMatches(rows) ==
    Cardinality({i \in 1..Len(rows) : Contains(rows[i].sintomas, SINTOMA_ALVO)})

\* every row counted, missing age or not
TotalLinhas(rows) == Len(rows)

\* line 216: df_final[col_idade].notna().sum()
TotalValidos(rows) == Len(Idades(rows))

\* line 215: the rows with idade >= 35; a missing age compares False
Idosos(rows) == SelectSeq(rows, LAMBDA r : r.idade /= NULL /\ Val(r.idade) >= 35)

\* lines 217 and 226: count / total if total > 0 else 0
Ratio(count, total) == IF total > 0 THEN Rat(count, total) ELSE RZero

\* lines 93-100: the column idade is read without a presence check
Descritiva ==
    /\ pc = "prepared"
    /\ IF col_idade \notin df_final.cols
       THEN /\ pc' = "failed"
            /\ error' = "KeyError"
            /\ printed' = printed \cup {"descritiva_titulo"}
            /\ UNCHANGED desc
       ELSE /\ pc' = "described"
            /\ desc' = [idade |-> Describe(Idades(df_final.rows)),
                        num_sintomas |-> Describe(NumsSintomas(df_final.rows)),
                        idade_2023 |-> Describe(Idades(RowsOfYear(df_final.rows, 2023))),
                        idade_2024 |-> Describe(Idades(RowsOfYear(df_final.rows, 2024)))]
            /\ printed' = printed \cup {"descritiva_titulo", "descritiva", "descritiva_ano"}
            /\ UNCHANGED error
    /\ UNCHANGED <<outLoc, dirCreated, file23, file24, images, df_2023, df_2024,
                   df_final, hyp, zt, prob, others>>

\* lines 106-152: two charts of idade, and the chart of sexo when the column exists
Graficos ==
    /\ pc = "described"
    /\ images' = images \cup {"histograma_idade.png", "boxplot_idade_ano.png"}
                        \cup (IF col_sexo \in df_final.cols
                              THEN {"grafico_sexo_por_ano.png"} ELSE {})
    /\ printed' = printed \cup {"graficos"}
    /\ pc' = "plotted"
    /\ UNCHANGED <<error, outLoc, dirCreated, file23, file24, df_2023, df_2024,
                   df_final, desc, hyp, zt, prob, others>>

\* lines 157-176: the two year subsets and the Welch test on idade; a conclusion is
\* printed whatever the p-value
TesteT ==
    /\ pc = "plotted"
    /\ LET df_23 == RowsOfYear(df_final.rows, 2023)
           df_24 == RowsOfYear(df_final.rows, 2024)
       IN  hyp' = [df_23 |-> df_23, df_24 |-> df_24,
                   media_23 |-> Mean(Idades(df_23)), media_24 |-> Mean(Idades(df_24))]
    /\ printed' = printed \cup {"testes_titulo", "t_medias", "t_estatistica", "t_conclusao"}
    /\ pc' = "ttest"
    /\ UNCHANGED <<error, outLoc, dirCreated, file23, file24, images, df_2023, df_2024,
                   df_final, desc, zt, prob, others>>

\* lines 178-207: the proportion test, run only when the column sintomas exists
TesteProporcao ==
    /\ pc = "ttest"
    /\ IF col_sintomas \in df_final.cols
       THEN LET x1 == CountMatches(hyp.df_23)
                n1 == Len(hyp.df_23)
                x2 == CountMatches(hyp.df_24)
                n2 == Len(hyp.df_24)
                r == TwoProportionZTest(x1, n1, x2, n2)
            IN  /\ zt' = [ran |-> TRUE, x1 |-> x1, n1 |-> n1, x2 |-> x2, n2 |-> n2, res |-> r]
                /\ IF r.err /= "none"
                   THEN /\ pc' = "failed"
                        /\ error' = r.err
                        /\ printed' = printed \cup {"z_titulo", "z_proporcoes"}
                   ELSE /\ pc' = "ztest"
                        /\ printed' = printed \cup {"z_titulo", "z_proporcoes",
                                                    "z_estatistica", "z_conclusao"}
                        /\ UNCHANGED error
       ELSE /\ zt' = [ran |-> FALSE]
            /\ pc' = "ztest"
            /\ UNCHANGED <<error, printed>>
    /\ UNCHANGED <<outLoc, dirCreated, file23, file24, images, df_2023, df_2024,
                   df_final, desc, hyp, prob, others>>

\* lines 212-231: the two empirical probabilities and the closing message
Probabilidade ==
    /\ pc = "ztest"
    /\ LET rows == df_final.rows
           total_validos == TotalValidos(rows)
           prob_idoso == Ratio(Len(Idosos(rows)), total_validos)
           ns == NumsSintomas(rows)
       IN  IF ns /= <<>>
           THEN LET p75 == Quantile(ns, 3, 4)
                    acima_p75 == Len(SelectSeq(ns, LAMBDA v : RLt(p75, Rat(v, 1))))
                    total_ns == Len(ns)
                IN  /\ prob' = [prob_idoso |-> prob_idoso, muitos |-> TRUE, p75 |-> p75,
                                prob_muitos_sintomas |-> Ratio(acima_p75, total_ns)]
                    /\ printed' = printed \cup {"prob_titulo", "prob_idoso", "p75",
                                                "prob_muitos_sintomas", "concluida"}
           ELSE /\ prob' = [prob_idoso |-> prob_idoso, muitos |-> FALSE]
                /\ printed' = printed \cup {"prob_titulo", "prob_idoso", "concluida"}
    /\ pc' = "done"
    /\ UNCHANGED <<error, outLoc, dirCreated, file23, file24, images, df_2023, df_2024,
                   df_final, desc, hyp, zt, others>>

Next ==
    \/ MakeDirs
    \/ LoadFiles
    \/ Unificar
    \/ PrepararColunas
    \/ Descritiva
    \/ Graficos
    \/ TesteT
    \/ TesteProporcao
    \/ Probabilidade

Spec == RunInit /\ [][Next]_vars

\* the lines that report statistics
StatsLines ==
    {"descritiva", "descritiva_ano", "t_medias", "t_estatistica", "t_conclusao",
     "z_proporcoes", "z_estatistica", "z_conclusao", "prob_idoso", "p75",
     "prob_muitos_sintomas"}

\* C1: when either input file does not exist the run prints an error and returns
\* without crashing, and produces nothing: no image, no statistics, and nothing is
\* created in or as the output location.
C1_MissingFileNoOutput ==
    (~file23.exists \/ ~file24.exists) =>
        /\ pc \in {"start", "mkdir", "returned"}
        /\ pc = "returned" =>
              /\ printed \cap {"erro_arquivo_2023", "erro_arquivo_2024"} /= {}
              /\ images = {}
              /\ printed \cap StatsLines = {}
              /\ ~dirCreated

\* the stages at which df_23 and df_24 exist
AfterTesteT ==
    \/ pc \in {"ttest", "ztest", "done"}
    \/ pc = "failed" /\ error = "ZeroDivisionError"

\* C3: with the symptom column present, a proportion test run on a year group of zero
\* rows fails with a division by zero, and the run reaches neither the probability
\* stage nor the closing message.
C3_EmptyGroupDivisionByZero ==
    (/\ AfterTesteT
     /\ pc /= "ttest"
     /\ col_sintomas \in df_final.cols
     /\ (Len(hyp.df_23) = 0 \/ Len(hyp.df_24) = 0)) =>
        /\ pc = "failed"
        /\ error = "ZeroDivisionError"
        /\ zt.res.err = "ZeroDivisionError"
        /\ printed \cap {"z_estatistica", "z_conclusao", "prob_titulo", "concluida"} = {}

C3_Witness ==
    /\ pc = "failed"
    /\ error = "ZeroDivisionError"
    /\ zt.n1 = 0
    /\ zt.n2 >= 1
    /\ "concluida" \notin printed

\* C4: the probability of idade >= 35 is 0 when no row has an age, and otherwise the
\* rows with idade >= 35 over the rows with an age; the probability of more symptoms
\* than the 75th percentile is skipped when no row has a count, and otherwise the rows
\* above the percentile over the rows with a count; the stage never raises.
C4_EmpiricalProbability ==
    /\ pc = "failed" => "prob_titulo" \notin printed
    /\ pc = "done" =>
          LET rows == df_final.rows
              valid == {i \in 1..Len(rows) : rows[i].idade /= NULL}
              old == {i \in valid : Val(rows[i].idade) >= 35}
              counted == {i \in 1..Len(rows) : rows[i].num_sintomas /= NULL}
          IN  /\ valid = {} => prob.prob_idoso = RZero
              /\ prob.prob_idoso.d >= 1
              /\ prob.prob_idoso.n * Cardinality(valid)
                     = Cardinality(old) * prob.prob_idoso.d
              /\ prob.muitos <=> counted /= {}
              /\ prob.muitos =>
                    LET above == {i \in counted :
                                     RLt(prob.p75, Rat(Val(rows[i].num_sintomas), 1))}
                    IN  /\ prob.prob_muitos_sintomas.d >= 1
                        /\ prob.prob_muitos_sintomas.n * Cardinality(counted)
                               = Cardinality(above) * prob.prob_muitos_sintomas.d

C4_Witness ==
    /\ pc = "done"
    /\ col_idade \in df_final.cols
    /\ Len(df_final.rows) = 2
    /\ \A i \in 1..2 : df_final.rows[i].idade = NULL
    /\ prob.prob_idoso = RZero

\* C7: optional columns are checked before every use: without a symptom column the
\* run does not fail (num_sintomas is null in every row, the proportion test and the
\* percentile probability are skipped, the closing message is reached), and no stage
\* reads idade, sexo or the date without a presence check.
C7_OptionalColumnsChecked ==
    /\ pc = "failed" => error /= "KeyError"
    /\ (pc \in {"failed", "done"} /\ col_sintomas \notin df_final.cols) =>
          /\ pc = "done"
          /\ \A i \in 1..Len(df_final.rows) : df_final.rows[i].num_sintomas = NULL
          /\ ~zt.ran
          /\ ~prob.muitos
          /\ "concluida" \in printed

\* the stages at which df_final exists
AfterUnificar == pc \notin {"start", "mkdir", "loaded", "returned"}

\* C8: every row of the unified frame carries the year 2023 or 2024; the frame is the
\* rows of the 2023 file followed by the rows of the 2024 file in their order; and the
\* two year subsets partition it with n1 and n2 the row counts of the two files, also
\* when the files carry a column "Ano" of their own.
C8_YearTagPartition ==
    AfterUnificar =>
        LET rows == df_final.rows
            k == Len(file23.rows)
            same(r, f, ano) ==
                /\ r.ano = Some(ano)
                /\ r.sintomas = f.sintomas
                /\ r.sexo = f.sexo
                /\ r.idade = (IF pc = "unified" \/ col_idade \notin df_final.cols
                              THEN f.idade ELSE ToNumeric(f.idade))
        IN  /\ Len(rows) = k + Len(file24.rows)
            /\ \A i \in 1..Len(rows) : rows[i].ano \in {Some(2023), Some(2024)}
            /\ \A i \in 1..k : same(rows[i], file23.rows[i], 2023)
            /\ \A i \in 1..Len(file24.rows) : same(rows[k + i], file24.rows[i], 2024)
            /\ AfterTesteT =>
                  /\ Len(hyp.df_23) = k
                  /\ Len(hyp.df_24) = Len(file24.rows)
                  /\ hyp.df_23 \o hyp.df_24 = rows
                  /\ (pc /= "ttest" /\ zt.ran) =>
                        /\ zt.n1 = k
                        /\ zt.n2 = Len(file24.rows)
                        /\ zt.n1 + zt.n2 = Len(rows)

C8_Witness ==
    /\ pc = "ttest"
    /\ Len(file23.rows) = 1
    /\ Len(file24.rows) = 1
    /\ file23.rows[1].ano = Some(2024)
    /\ file24.rows[1].ano = Some(2023)
    /\ Len(hyp.df_23) = 1
    /\ hyp.df_23[1].ano = Some(2023)

\* C10: whenever both year groups are non-empty, the standard error of the proportion
\* test is strictly positive and the conclusion rests on a defined z and p-value, also
\* when no row or every row of both years has the symptom.
C10_StandardErrorPositive ==
    (pc \in {"ztest", "done"} /\ zt.ran /\ zt.n1 >= 1 /\ zt.n2 >= 1) =>
        /\ RLt(RZero, zt.res.se2)
        /\ ZDefined(zt.res)
        /\ zt.res.p_z /= NAN

\* C5: normalising a column label twice gives the same label as normalising it
\* once, for every label.
C5_Idempotent == npc = "twice" => ntwice = nonce

=============================================================================
